---- MODULE Spec2Model ----
(***************************************************************************)
(* Model of c_src/erl_comm.c of xfp_statem: the resumable frame reader     *)
(* read_cmd, the frame writer write_exact / write_cmd and the reply helper *)
(* send_answer_string_ulong.                                               *)
(*                                                                         *)
(* Bytes are naturals 0..255.  The frame buffer is modelled as the memory  *)
(* that starts at *pbuf: the `size' allocated bytes followed by the two    *)
(* bytes that lie directly behind the allocation (a frame occupies len+2   *)
(* bytes while the code sizes the allocation to len).  Offsets of the C    *)
(* code are 0-based, sequences here are 1-based: C buf[i] is buf[i+1].     *)
(***************************************************************************)
EXTENDS Integers, Sequences, FiniteSets, TLC

(* ------------------------------ bounds -------------------------------- *)
MaxLen == 5        \* longest payload the host sends
MaxFrames == 2     \* frames the host sends back-to-back
MaxPay == 3        \* longest payload handed to write_cmd directly

(* ------------------------- program constants -------------------------- *)
HeaderLen == 2     \* bytes of the length header
MinCap == 2        \* the header read needs two bytes of storage

CallAgain == 1     \* return(1): header still partial
BodyRead2 == 2     \* return(2): body read delivered bytes
Closed0 == 0       \* return(0) / return(count) with count = 0
ErrNeg == 0 - 1    \* return -1 / return(count) with count < 0

JunkBytes == {0, 170}   \* values indeterminate memory may hold

\* initial capacities: the smallest, one that holds the longest payload but
\* not its header, one that holds the longest frame
Caps == {MinCap, MaxLen, MaxLen + HeaderLen}

VARIABLES
  buf,       \* memory at *pbuf: size bytes of storage + HeaderLen behind it
  size,      \* *size
  curpos,    \* *curpos
  pc,        \* "idle": no read_cmd call active; "body": inside a call,
             \* about to issue the body read of line 57
  len,       \* local len of the current / last call
  desired,   \* local desired of the current / last call
  count,     \* local count: result of the last underlying read
  ret,       \* return value of the last read_cmd call
  stream,    \* bytes the host has still to deliver to fd 0
  closed,    \* the host closed its end of fd 0
  sent,      \* the frames the host sends, in order (never changes)
  got,       \* frames the caller took out of the buffer, in order
  consumed,  \* bytes read from fd 0 so far
  cp0,       \* *curpos at the entry of the current / last call
  nreads,    \* underlying reads issued by the current / last call
  grown,     \* what the last growth did: "none", "inplace", "moved", "failed"
  last,      \* the reader-side step taken last: "init", "close", "hdrfail",
             \* "hdr", "bodyentry", "bodyfail", "body", "reset", "loop"
  xbuff,     \* ei_x_buff: buff->buff[0 .. buff->index)
  wpc,       \* write_cmd: "idle", or the write_exact it is in: "hdr1",
             \* "hdr2", "body"
  wrote,     \* local wrote of the running write_exact
  sink,      \* bytes fd 1 received during the current / last write_cmd call
  nw,        \* underlying writes the running / last write_exact issued
  failed,    \* <<i>>: the first underlying write of the call that gave
             \* <= 0 gave i; <<>>: none did
  late,      \* an underlying write was issued after one had given <= 0
  rejected,  \* an underlying write that had bytes to write gave <= 0
  wret,      \* return value of the last write_cmd call
  caller,    \* who called write_cmd: "none", "direct", "send"
  encfail,   \* send_answer_string_ulong: the encoding step that failed (0: none)
  retval,    \* return value of the last send_answer_string_ulong call
  nfree,     \* ei_x_free calls of the current / last send_answer_string_ulong
  looped     \* the bytes of the sink were fed back to fd 0

rvars == <<buf, size, curpos, pc, len, desired, count, ret, stream,
           closed, sent, got, consumed, cp0, nreads, grown, last>>

wvars == <<xbuff, wpc, wrote, sink, nw, failed, late, rejected, wret, caller, encfail, retval,
           nfree, looped>>

(* ----------------------------- helpers -------------------------------- *)
Min(a, b) == IF a < b THEN a ELSE b

RECURSIVE Flatten(_)
Flatten(ss) == IF ss = <<>> THEN <<>> ELSE Head(ss) \o Flatten(Tail(ss))

\* payload of length L: bytes 1..L
Payload(L) == [i \in 1..L |-> i]

\* wire format of a frame: 2-byte big-endian length, then the payload
Frame(p) == <<Len(p) \div 256, Len(p) % 256>> \o p

FrameSeqs == UNION {[1..n -> {Frame(Payload(L)) : L \in 0..MaxLen}] : n \in 1..MaxFrames}

\* line 42: len = ((buf[0] << 8) & 0x0000ff00) | (buf[1] & 0x00ff)
Decode(b) == ((b[1] * 256) % 65536) + (b[2] % 256)

\* line 43: desired = len - *curpos + 2
Desired(l, cp) == l - cp + HeaderLen

\* faulty variant: the header read asks for both header bytes again
HeaderReqWhole(cp) == HeaderLen

\* request of the header read, line 29
HeaderReq(cp) == HeaderLen - cp

\* read(0, b + off, k) storing the first k bytes of the pipe; bytes that
\* fall behind the modelled memory are not recorded
Store(b, off, bytes) ==
  [i \in 1..Len(b) |->
     IF i > off /\ i <= off + Len(bytes) THEN bytes[i - off] ELSE b[i]]

\* counts a read(0, p, req) may return when the host still has `avail' to
\* deliver: at least one byte, at most the request, as many as the host has
\* delivered by then; a negative req is a huge size_t
ReadCounts(req, avail) ==
  1..(IF req > 0 THEN Min(req, Len(avail)) ELSE Len(avail))

\* memset(p, 0, n) on the memory that starts at p
Memset0(b, n) == [i \in 1..Len(b) |-> IF i <= n THEN 0 ELSE b[i]]

\* line 50: memset(*pbuf, 0, len - (*size)), *pbuf still the old pointer
GrowFill(b, l, sz) == Memset0(b, l - sz)

\* realloc(buf, l) that extends the block where it is: the old memory
\* stays, the bytes behind it are indeterminate (j)
ReallocInPlace(b, l, j) ==
  [i \in 1..(l + HeaderLen) |-> IF i <= Len(b) THEN b[i] ELSE j]

\* realloc(buf, l) that moves the block: the first sz bytes are copied,
\* everything else is indeterminate (j)
ReallocMoved(b, sz, l, j) ==
  [i \in 1..(l + HeaderLen) |-> IF i <= sz THEN b[i] ELSE j]

(* ------------------------------ Init ---------------------------------- *)
\* the caller allocates the buffer (contents indeterminate), sets curpos
\* to 0; the host is about to send a sequence of frames
InitReader ==
  /\ size \in Caps
  /\ \E j \in JunkBytes : buf = [i \in 1..(size + HeaderLen) |-> j]
  /\ curpos = 0
  /\ pc = "idle"
  /\ len = 0 /\ desired = 0 /\ count = 0 /\ ret = CallAgain
  /\ sent \in FrameSeqs
  /\ stream = Flatten(sent)
  /\ closed = FALSE
  /\ got = <<>>
  /\ consumed = 0
  /\ cp0 = 0
  /\ nreads = 0
  /\ grown = "none"
  /\ last = "init"

(* --------------------------- environment ------------------------------ *)
\* the host closes its end; what it had not delivered is never delivered
Close ==
  /\ last' = "close"
  /\ ~closed
  /\ closed' = TRUE
  /\ stream' = <<>>
  /\ UNCHANGED <<buf, size, curpos, pc, len, desired, count, ret,
                 sent, got, consumed, cp0, nreads, grown>>
  /\ UNCHANGED wvars

(* ------------------------------ read_cmd ------------------------------ *)
\* the frame is complete when the cursor equals len + 2 after a body read
FrameComplete == pc = "idle" /\ ret = BodyRead2 /\ curpos = len + HeaderLen

\* faulty variant: a failed header read is reported as "call again"
HeaderFailAsCallAgain(c) == CallAgain

\* lines 31-32: return(count) when the header read gave count <= 0
HeaderFail(c) == c

\* lines 35-36: return(1) when the header is still partial
HeaderPartial == CallAgain

\* faulty variant: the call returns once the header is complete
HeaderDoneReturns(cp) == FALSE

\* line 35: with the cursor at cp after the header read, the call goes on
\* to the body phase (it does not return)
HeaderDone(cp) == cp >= HeaderLen

\* lines 58-59: return(0) when the body read gave count <= 0
BodyFail(c) == Closed0

\* line 62: return(2) after a body read that delivered bytes; cp is the
\* advanced cursor, l the decoded length
BodyDone(cp, l) == BodyRead2

\* faulty variant: a realloc that fails gives the block up
ReallocFailedFrees(b, j) == [i \in 1..Len(b) |-> j]

\* lines 47-49: realloc returned NULL: the old block stays as it was (j: what
\* freed memory would hold)
ReallocFailed(b, j) == b

\* faulty variant: the buffer is resized to every declared length
NeedsResize(l, sz) == l # sz

\* line 46: if (len > *size)
NeedsGrowth(l, sz) == l > sz

\* lines 42-54: decode the length, compute the request of the body read and
\* grow the buffer when len > *size.  b, cp: buffer and cursor at line 42.
BodyPrep(b, cp) ==
  LET l == Decode(b) IN
  /\ len' = l
  /\ desired' = Desired(l, cp)
  /\ IF NeedsGrowth(l, size)
     THEN \/ \E j \in JunkBytes :           \* realloc returned NULL, line 49
             /\ grown' = "failed"
             /\ buf' = ReallocFailed(b, j) /\ size' = size
             /\ pc' = "idle" /\ ret' = ErrNeg
          \/ \E j \in JunkBytes :           \* block extended where it is
             /\ grown' = "inplace"
             /\ buf' = GrowFill(ReallocInPlace(b, l, j), l, size)
             /\ size' = l
             /\ pc' = "body" /\ ret' = ret
          \/ \E j \in JunkBytes :           \* block moved: *pbuf dangles in
             /\ grown' = "moved"            \* line 50, the new block is not
             /\ buf' = ReallocMoved(b, size, l, j)      \* touched by memset
             /\ size' = l
             /\ pc' = "body" /\ ret' = ret
     ELSE /\ grown' = "none"
          /\ buf' = b /\ size' = size
          /\ pc' = "body" /\ ret' = ret

\* a call entered with *curpos < 2: the header read of line 29 failed
HeaderReadFail ==
  /\ last' = "hdrfail"
  /\ pc = "idle" /\ curpos < HeaderLen
  /\ \/ count' = ErrNeg                              \* read error
     \/ stream = <<>> /\ closed /\ count' = 0        \* end of file
  /\ ret' = HeaderFail(count')
  /\ cp0' = curpos /\ nreads' = 1
  /\ UNCHANGED <<buf, size, curpos, pc, len, desired, stream, closed,
                 sent, got, consumed, grown>>
  /\ UNCHANGED wvars

\* a call entered with *curpos < 2: the header read delivered k bytes
HeaderRead ==
  /\ last' = "hdr"
  /\ pc = "idle" /\ curpos < HeaderLen
  /\ \E k \in ReadCounts(HeaderReq(curpos), stream) :
       LET b == Store(buf, curpos, SubSeq(stream, 1, k)) IN
       /\ count' = k
       /\ stream' = SubSeq(stream, k + 1, Len(stream))
       /\ consumed' = consumed + k
       /\ curpos' = curpos + k
       /\ IF ~HeaderDone(curpos')
          THEN /\ ret' = HeaderPartial /\ pc' = "idle" /\ buf' = b
               /\ UNCHANGED <<size, len, desired, grown>>
          ELSE BodyPrep(b, curpos')
  /\ cp0' = curpos /\ nreads' = 1
  /\ UNCHANGED <<closed, sent, got>>
  /\ UNCHANGED wvars

\* a call entered with *curpos >= 2 goes straight to line 42 (the caller
\* takes a complete frame out before it calls again, see ResetCursor)
BodyEntry ==
  /\ last' = "bodyentry"
  /\ pc = "idle" /\ curpos >= HeaderLen /\ ~FrameComplete
  /\ BodyPrep(buf, curpos)
  /\ cp0' = curpos /\ nreads' = 0
  /\ UNCHANGED <<curpos, count, stream, closed, sent, got, consumed>>
  /\ UNCHANGED wvars

\* line 57 gave count <= 0: read error, end of file, a request of 0 bytes,
\* or a negative request (converted to a huge size_t and rejected)
BodyReadFail ==
  /\ last' = "bodyfail"
  /\ pc = "body"
  /\ \/ count' = ErrNeg
     \/ desired # 0 /\ stream = <<>> /\ closed /\ count' = 0
     \/ desired = 0 /\ count' = 0
  /\ ret' = BodyFail(count')
  /\ pc' = "idle"
  /\ nreads' = nreads + 1
  /\ UNCHANGED <<buf, size, curpos, len, desired, stream, closed, sent,
                 got, consumed, cp0, grown>>
  /\ UNCHANGED wvars

\* line 57 delivered k bytes (a negative request that the system accepts
\* is served like any oversized request)
BodyRead ==
  /\ last' = "body"
  /\ pc = "body" /\ desired # 0
  /\ \E k \in ReadCounts(desired, stream) :
       /\ count' = k
       /\ buf' = Store(buf, curpos, SubSeq(stream, 1, k))
       /\ stream' = SubSeq(stream, k + 1, Len(stream))
       /\ consumed' = consumed + k
       /\ curpos' = curpos + k
  /\ ret' = BodyDone(curpos', len)
  /\ pc' = "idle"
  /\ nreads' = nreads + 1
  /\ UNCHANGED <<size, len, desired, closed, sent, got, cp0, grown>>
  /\ UNCHANGED wvars

(* ------------------------------- caller ------------------------------- *)
\* the caller hands the completed frame on and resets the cursor to 0
ResetCursor ==
  /\ last' = "reset"
  /\ FrameComplete
  /\ got' = Append(got, SubSeq(buf, 1, len + HeaderLen))
  /\ curpos' = 0
  /\ ret' = CallAgain
  /\ UNCHANGED <<buf, size, pc, len, desired, count, stream, closed,
                 sent, consumed, cp0, nreads, grown>>
  /\ UNCHANGED wvars

NextReader ==
  \/ Close
  \/ HeaderReadFail \/ HeaderRead \/ BodyEntry \/ BodyReadFail \/ BodyRead
  \/ ResetCursor

(* --------------------------- write_exact ------------------------------ *)
\* results write(1, p, req) may have: an error, nothing, or 1..req bytes
WriteResults(req) == {ErrNeg, 0} \cup 1..req

\* line 80: li = (buff->index >> 8) & 0xff
HiByte(n) == (n \div 256) % 256

\* line 82: li = buff->index & 0xff
LoByte(n) == n % 256

\* the span the running write_exact was called with
Span ==
  CASE wpc = "hdr1" -> <<HiByte(Len(xbuff))>>
    [] wpc = "hdr2" -> <<LoByte(Len(xbuff))>>
    [] OTHER -> xbuff

\* line 69: the request of the next underlying write
WriteReq(l, w) == l - w

\* faulty variant: write_exact issues one write and does not loop
WriteOnce(w, l) == FALSE

\* line 72: the loop goes on while (wrote < len)
WriteAgain(w, l) == w < l

\* lines 70 and 74: the value write_exact returns when it returns after a
\* write that gave i, having wrote bytes out of l
WriteExactRet(i, l) == IF i <= 0 THEN i ELSE l

\* lines 81-85: what write_cmd does when the write_exact at `at' returned v:
\* the next write_exact it calls ("idle": it returns)
AfterWriteExact(at, v) ==
  CASE at = "hdr1" -> "hdr2"
    [] at = "hdr2" -> "body"
    [] OTHER -> "idle"

\* faulty variant: the result of write_cmd is not looked at
SendResultIgnored(v) == 0

\* lines 103-108: the result of send_answer_string_ulong once write_cmd
\* returned v
SendResult(v) == IF v = 0 THEN ErrNeg ELSE 0

(* ------------------- send_answer_string_ulong: encoding ---------------- *)
\* the external term format of the reply {Tag, Value}
Tags == {<<111, 107>>, <<101>>}               \* "ok", "e"
Values == {42, 300}
EncVersion == <<131>>                         \* ei_x_new_with_version
EncTuple == <<104, 2>>                        \* ei_x_encode_tuple_header
EncAtom(t) == <<100, 0, Len(t)>> \o t         \* ei_x_encode_atom
EncUlong(v) ==                                \* ei_x_encode_ulong
  IF v < 256 THEN <<97, v>>
  ELSE <<98, (v \div 16777216) % 256, (v \div 65536) % 256,
             (v \div 256) % 256, v % 256>>

\* lines 99-102: the buffer after the encoding steps before step f (f = 0:
\* after all of them); the || chain stops at the first step that fails
Encoded(t, v, f) ==
  (IF f = 1 THEN <<>> ELSE EncVersion)
  \o (IF f \in 1..2 THEN <<>> ELSE EncTuple)
  \o (IF f \in 1..3 THEN <<>> ELSE EncAtom(t))
  \o (IF f \in 1..4 THEN <<>> ELSE EncUlong(v))

EncSteps == 4

\* faulty variant: write_cmd is called whatever the encoding steps returned
EncodedOrNot(f) == TRUE

\* lines 99-103: the || chain reaches write_cmd only when every encoding
\* step returned 0 (f: the step that failed, 0: none)
EncodeOk(f) == f = 0

\* faulty variant: the encode buffer is released after a success only
FreeOnSuccessOnly(v, n) == IF v = 0 THEN n + 1 ELSE n

\* line 107: ei_x_free(&result) runs once the || chain is through, with
\* retval = v; n: the releases before it
FreeAfter(v, n) == n + 1

(* ------------------------------ write_cmd ------------------------------ *)
WriterIdle == wpc = "idle" /\ ~looped

\* the bookkeeping of a fresh write_cmd or send_answer_string_ulong call
FreshCall ==
  /\ wrote' = 0 /\ sink' = <<>> /\ nw' = 0
  /\ failed' = <<>> /\ late' = FALSE /\ rejected' = FALSE
  /\ wret' = 0

\* write_cmd called with a buffer of N payload bytes
CallWriteCmd ==
  /\ WriterIdle
  /\ \E N \in 0..MaxPay : xbuff' = Payload(N)
  /\ wpc' = "hdr1"
  /\ caller' = "direct"
  /\ FreshCall
  /\ encfail' = 0 /\ retval' = 0 /\ nfree' = 0
  /\ UNCHANGED looped
  /\ UNCHANGED rvars

\* send_answer_string_ulong(string, value), lines 95-103: the encoding
\* steps; step f fails (f = 0: none does, and write_cmd is called)
SendAnswer ==
  /\ WriterIdle
  /\ \E t \in Tags, v \in Values, f \in 0..EncSteps :
       /\ xbuff' = Encoded(t, v, f)
       /\ encfail' = f
       /\ IF EncodeOk(f)
          THEN /\ wpc' = "hdr1" /\ caller' = "send"
               /\ nfree' = 0
               /\ retval' = 0                \* line 95
          ELSE /\ wpc' = "idle" /\ caller' = "none"
               /\ retval' = ErrNeg           \* line 105
               /\ nfree' = FreeAfter(ErrNeg, 0)   \* line 107
  /\ FreshCall
  /\ UNCHANGED looped
  /\ UNCHANGED rvars

\* one underlying write of the running write_exact (line 69) and what
\* follows it without blocking
Write ==
  /\ wpc # "idle"
  /\ \E i \in WriteResults(WriteReq(Len(Span), wrote)) :
       LET w == IF i > 0 THEN wrote + i ELSE wrote
           returns == i <= 0 \/ ~WriteAgain(w, Len(Span))
           v == WriteExactRet(i, Len(Span))
           to == IF returns THEN AfterWriteExact(wpc, v) ELSE wpc
       IN
       /\ sink' = sink \o SubSeq(Span, wrote + 1, w)
       /\ nw' = IF wrote = 0 THEN 1 ELSE nw + 1
       /\ failed' = IF failed = <<>> /\ i <= 0 THEN <<i>> ELSE failed
       /\ late' = (late \/ failed # <<>>)
       /\ rejected' = (rejected \/ (i <= 0 /\ WriteReq(Len(Span), wrote) > 0))
       /\ wrote' = IF returns THEN 0 ELSE w
       /\ wpc' = to
       /\ IF to = "idle"
          THEN /\ wret' = v                              \* line 85
               /\ IF caller = "send"
                  THEN /\ retval' = SendResult(v)
                       /\ nfree' = FreeAfter(SendResult(v), nfree)
                  ELSE UNCHANGED <<retval, nfree>>
          ELSE UNCHANGED <<wret, retval, nfree>>
  /\ UNCHANGED <<xbuff, caller, encfail, looped>>
  /\ UNCHANGED rvars

\* test harness: the bytes one write_cmd call put on fd 1 become the
\* inbound stream of read_cmd, and the stream ends behind them
Loopback ==
  /\ last' = "loop"
  /\ WriterIdle /\ caller = "direct" /\ ~rejected
  /\ looped' = TRUE
  /\ stream' = sink
  /\ closed' = TRUE
  /\ UNCHANGED <<buf, size, curpos, pc, len, desired, count, ret, sent, got,
                 consumed, cp0, nreads, grown>>
  /\ UNCHANGED <<xbuff, wpc, wrote, sink, nw, failed, late, rejected, wret,
                 caller, encfail, retval, nfree>>

NextWriter == CallWriteCmd \/ SendAnswer \/ Write

InitWriterIdle ==
  /\ xbuff = <<>> /\ wpc = "idle" /\ wrote = 0 /\ sink = <<>> /\ nw = 0
  /\ failed = <<>> /\ late = FALSE /\ rejected = FALSE
  /\ wret = 0 /\ caller = "none" /\ encfail = 0 /\ retval = 0 /\ nfree = 0
  /\ looped = FALSE

\* the reader before the host (or the harness) has sent anything
InitReaderQuiet ==
  /\ size \in Caps
  /\ \E j \in JunkBytes : buf = [i \in 1..(size + HeaderLen) |-> j]
  /\ curpos = 0 /\ pc = "idle"
  /\ len = 0 /\ desired = 0 /\ count = 0 /\ ret = CallAgain
  /\ sent = <<>> /\ stream = <<>> /\ closed = FALSE
  /\ got = <<>> /\ consumed = 0 /\ cp0 = 0 /\ nreads = 0 /\ grown = "none"
  /\ last = "init"

vars == <<rvars, wvars>>

\* the reader fed by the host
Init == InitReader /\ InitWriterIdle
Next == NextReader
Spec == Init /\ [][Next]_vars

\* the writer, and the reader fed with what the writer wrote
InitW == InitReaderQuiet /\ InitWriterIdle
NextW ==
  \/ NextWriter
  \/ Loopback
  \/ looped /\ HeaderReadFail
  \/ looped /\ HeaderRead
  \/ looped /\ BodyEntry
  \/ looped /\ BodyReadFail
  \/ looped /\ BodyRead
  \/ looped /\ ResetCursor
SpecW == InitW /\ [][NextW]_vars

\* the reader called again and again by a caller that is never starved,
\* while the host has sent whole frames and keeps its end open, every read
\* that asks for bytes gets some, and realloc never fails
InitL == Init
NextL ==
  \/ HeaderRead /\ grown' # "failed"
  \/ BodyEntry /\ grown' # "failed"
  \/ BodyRead
  \/ BodyReadFail /\ desired <= 0 /\ (desired = 0 => count' = 0)
  \/ ResetCursor
SpecL == InitL /\ [][NextL]_vars /\ WF_vars(NextL)

TypeOK ==
  /\ size \in MinCap..65535 /\ Len(buf) = size + HeaderLen
  /\ curpos >= 0 /\ pc \in {"idle", "body"}
  /\ ret \in {ErrNeg, Closed0, CallAgain, BodyRead2}
  /\ wpc \in {"idle", "hdr1", "hdr2", "body"}

(* ======================= claims about read_cmd ======================== *)
\* the first frame the host sends, and its declared length
First == sent[1]
FirstLen == Len(First) - HeaderLen

\* a is a prefix of b
IsPrefix(a, b) == Len(a) <= Len(b) /\ a = SubSeq(b, 1, Len(a))

\* stream offset at which the k-th frame ends (all of it: k beyond the last)
RECURSIVE EndOf(_)
EndOf(k) == IF k = 0 THEN 0
            ELSE IF k > Len(sent) THEN EndOf(Len(sent))
            ELSE EndOf(k - 1) + Len(sent[k])

\* the last read_cmd call met no failure of its environment
NoFault == count # ErrNeg /\ grown # "failed"

\* C1 (as claimed): while the first frame is assembled over any chunking and
\* any initial capacity, with the state threaded through the calls, the
\* cursor never passes L+2 and buffer[0..cursor) is the frame's prefix, so
\* that at cursor = L+2 the buffer holds the frame a single delivery gives.
C1_ResumableReads ==
  (got = <<>> /\ pc = "idle" /\ last \in {"hdr", "body"})
    => /\ curpos <= FirstLen + HeaderLen
       /\ SubSeq(buf, 1, curpos) = SubSeq(First, 1, curpos)

\* C3 (as claimed): a body read that delivers bytes makes read_cmd return
\* the "frame complete" result (2) exactly when the cursor now equals L+2;
\* a partial body gets another result.
C3_CompleteIffCursor ==
  [][last' = "body" => (ret' = BodyRead2 <=> curpos' = len' + HeaderLen)]_vars

\* C4 (as claimed): a growth leaves capacity >= L, keeps the bytes already
\* read (the header among them) and zeroes the added region.
C4_Growth ==
  [][size' # size =>
       /\ size' >= len'
       /\ Decode(buf') = len'
       /\ \A i \in (HeaderLen + 1)..curpos' : buf'[i] = buf[i]
       /\ \A i \in (size + 1)..size' : buf'[i] = 0]_vars

\* C7: when the header read of a call entered with cursor < 2 gives 0 or a
\* negative count, read_cmd returns that count, which is neither "call
\* again" (1) nor "frame complete" (2), issues no second read, and leaves
\* cursor, capacity and buffer as they were.
C7_ClosureSignal ==
  [][last' = "hdrfail" =>
       /\ curpos < HeaderLen
       /\ count' <= 0 /\ ret' = count'
       /\ ret' \notin {CallAgain, BodyRead2}
       /\ pc' = "idle" /\ nreads' = 1
       /\ UNCHANGED <<buf, size, curpos>>]_vars

\* the stream closed in the middle of a header
C7_Witness ==
  last = "hdrfail" /\ curpos = 1 /\ count = 0 /\ ret = Closed0 /\ closed

\* Scenario A: the frame [0x00,0x05] [1,2,3,4,5]
ScenarioA == <<0, 5, 1, 2, 3, 4, 5>>

\* C8 (as claimed): in Scenario A (header in one delivery, body in a later
\* one, room for the whole frame) the call entered with cursor 0 that reads
\* the two header bytes returns "call again" with cursor 2 and decoded
\* length 5.
C8_FirstCallReturnsAtHeader ==
  (First = ScenarioA /\ got = <<>> /\ size >= Len(ScenarioA) /\ cp0 = 0
     /\ pc = "idle" /\ curpos >= 2 /\ NoFault
     /\ (last = "hdr" \/ (last = "body" /\ count = 5)))
    => (ret = CallAgain /\ curpos = 2 /\ Decode(buf) = 5)

\* C8 (amended): a call that completes the header never returns "call
\* again": it goes on to the body phase in the same call and returns after
\* its body read, or -1 when growth fails.  In Scenario A with room for the
\* whole frame, the call entered with cursor 0 whose body read gets the five
\* body bytes has issued two reads and returns 2 with cursor 7, decoded
\* length 5 and the frame in buffer[0..7).
C8_ScenarioA ==
  /\ (last = "hdr" /\ pc = "idle")
       => \/ curpos < HeaderLen /\ ret = CallAgain
          \/ curpos = HeaderLen /\ grown = "failed" /\ ret = ErrNeg
  /\ (last = "body" /\ pc = "idle") => (ret = BodyRead2 /\ curpos > HeaderLen)
  /\ (last = "bodyfail" /\ pc = "idle") => ret = Closed0
  /\ (First = ScenarioA /\ got = <<>> /\ size >= Len(ScenarioA) /\ cp0 = 0
        /\ last = "body" /\ count = 5)
       => /\ ret = BodyRead2 /\ curpos = 7 /\ nreads = 2
          /\ Decode(buf) = 5
          /\ SubSeq(buf, 1, 7) = ScenarioA

C8_Witness ==
  /\ First = ScenarioA /\ got = <<>> /\ size >= Len(ScenarioA) /\ cp0 = 0
  /\ last = "body" /\ count = 5 /\ ret = BodyRead2 /\ curpos = 7

\* C9 (as claimed): with the cursor reset after each completed frame, the
\* k-th frame taken out of the buffer is the k-th frame sent, the reader
\* has never consumed a byte behind the frame it is assembling, and at
\* completion it has consumed exactly the bytes up to that frame's end.
C9_SendOrder ==
  /\ \A k \in 1..Len(got) : k <= Len(sent) /\ got[k] = sent[k]
  /\ consumed <= EndOf(Len(got) + 1)
  /\ FrameComplete => consumed = EndOf(Len(got) + 1)

(* ================= claims about write_cmd and the reply ================ *)
\* a write_cmd call has returned
WriteCmdDone == wpc = "idle" /\ caller \in {"direct", "send"}

\* C2 (as claimed): the bytes write_cmd emits for a payload of length L,
\* fed to read_cmd, never make read_cmd return a failure result (0 or -1)
\* unless a read or the growth failed, and once they are all read the frame
\* is complete with decoded length L and the payload as its body.
C2_RoundTrip ==
  (looped /\ got = <<>> /\ pc = "idle" /\ NoFault
     /\ last \in {"hdr", "body", "bodyfail"})
    => /\ ret \notin {Closed0, ErrNeg}
       /\ stream = <<>> =>
            /\ FrameComplete
            /\ Decode(buf) = Len(xbuff)
            /\ SubSeq(buf, HeaderLen + 1, HeaderLen + Len(xbuff)) = xbuff

\* C5: whenever no underlying write that had bytes to write gave <= 0, the
\* sink holds a prefix of the frame (2-byte big-endian N, then the N payload
\* bytes) while write_cmd runs, and exactly the frame once it has returned.
C5_PartialWrites ==
  (caller \in {"direct", "send"} /\ ~rejected)
    => /\ IsPrefix(sink, Frame(xbuff))
       /\ wpc = "idle" => sink = Frame(xbuff)

\* the body went out in three writes, each accepted in part
C5_Witness ==
  /\ WriteCmdDone /\ ~rejected /\ nw = 3 /\ Len(xbuff) = 3
  /\ sink = Frame(xbuff)

\* C6 (as claimed): once an underlying write of a write_cmd call gave <= 0,
\* the call issues no further write and returns that result.
C6_WriterStopsOnFailure ==
  /\ ~late
  /\ (WriteCmdDone /\ failed # <<>>) => wret = failed[1]

AllocFailed ==
  pc = "idle" /\ grown = "failed" /\ last \in {"hdr", "bodyentry", "close"}
    /\ ret = ErrNeg

\* C14: a read_cmd call whose growth fails returns -1 without issuing the
\* body read; the growth step leaves buffer, capacity and cursor as they
\* were (the buffer as the header read of the same call left it, the two
\* header bytes included), and the next call with that state decodes the
\* same length L and asks for the same bytes.
C14_AllocFailureKeepsState ==
  [][/\ (grown' = "failed" /\ last' = "bodyentry")
          => /\ ret' = ErrNeg /\ pc' = "idle" /\ nreads' = 0
             /\ UNCHANGED <<buf, size, curpos, stream, consumed>>
             /\ Decode(buf') = len'
     /\ (grown' = "failed" /\ last' = "hdr")
          => /\ ret' = ErrNeg /\ pc' = "idle" /\ nreads' = 1
             /\ size' = size /\ curpos' = HeaderLen
             /\ buf' = Store(buf, curpos, SubSeq(stream, 1, count'))
             /\ Decode(buf') = len'
     /\ (AllocFailed /\ last' = "bodyentry")
          => (len' = len /\ desired' = desired /\ Decode(buf) = len)]_vars

\* the growth failed in the call that read the header and again in the next
\* call, which decoded the same length from the untouched header
C14_Witness ==
  /\ AllocFailed /\ last = "bodyentry" /\ cp0 = HeaderLen
  /\ curpos = HeaderLen /\ len > size /\ Decode(buf) = len /\ len = FirstLen

\* C15: the capacity never decreases, and a step changes it only when the
\* declared length exceeds it (to that length).
C15_HighWaterMark ==
  [][/\ size' >= size
     /\ size' # size => (len' > size /\ size' = len')]_vars

\* after a first frame that made the buffer grow, a shorter second frame is
\* read with the capacity the first one left
C15_Witness ==
  /\ Len(got) = 1 /\ size \notin Caps /\ last = "body" /\ len < size
  /\ size = Len(sent[1]) - HeaderLen

(* ================ claims about the cursor and the reads =============== *)
\* C16 (as claimed): once the cursor is >= 2 it never exceeds L + 2, L the
\* length the first two bytes of the buffer decode to, and the request of a
\* body read, L - cursor + 2, is never negative.
C16_CursorInvariant ==
  /\ curpos >= HeaderLen => curpos <= Decode(buf) + HeaderLen
  /\ pc = "body" => desired >= 0

\* C17: a read_cmd call entered with cursor < 2 issues one read of at most
\* 2 - cursor bytes at offset cursor and advances the cursor by the count
\* read; when the cursor is still < 2 it returns "call again" (1) with that
\* one read only; a call issues at most one header read and one body read,
\* and no header read when it is entered with cursor >= 2.
C17_HeaderPhase ==
  [][/\ last' = "hdr"
          => /\ curpos < HeaderLen /\ cp0' = curpos
             /\ count' \in 1..(HeaderLen - curpos)
             /\ curpos' = curpos + count'
             /\ stream = SubSeq(stream, 1, count') \o stream'
             /\ curpos' < HeaderLen
                  => /\ ret' = CallAgain /\ pc' = "idle" /\ nreads' = 1
                     /\ buf' = Store(buf, curpos, SubSeq(stream, 1, count'))
                     /\ UNCHANGED <<size, len, desired>>
     /\ last' \in {"body", "bodyfail"}
          => /\ pc = "body" /\ pc' = "idle"
             /\ nreads' = 1 + (IF cp0' < HeaderLen THEN 1 ELSE 0)
     /\ last' = "bodyentry" => (curpos >= HeaderLen /\ nreads' = 0)]_vars

\* a call entered with cursor 0 got one header byte and returned 1
C17_Witness ==
  /\ last = "hdr" /\ cp0 = 0 /\ curpos = 1 /\ count = 1 /\ nreads = 1
  /\ ret = CallAgain /\ pc = "idle"

\* C18 (as claimed): the return value tells the outcomes of read_cmd apart;
\* in particular an allocation failure does not return the value a header
\* read error returns, and a body-read failure does not return the value a
\* header-phase closure returns.
C18_DistinctResults ==
  /\ AllocFailed => ret # HeaderFail(ErrNeg)
  /\ (last = "bodyfail" /\ pc = "idle") => ret # HeaderFail(0)
  /\ (last = "hdr" /\ pc = "idle" /\ curpos < HeaderLen)
       => ret \notin {HeaderFail(ErrNeg), HeaderFail(0), BodyFail(0)}

\* C19 (as claimed): every read read_cmd issues stays inside the storage:
\* offset + request <= capacity, for the header read and, after the growth
\* check, for the body read (L + 2 <= capacity).
C19_ReadsInsideBuffer ==
  /\ (pc = "idle" /\ curpos < HeaderLen)
       => curpos + HeaderReq(curpos) <= size
  /\ pc = "body" => (curpos + desired <= size /\ len + HeaderLen <= size)

\* the first frame is assembled: the call returned 2 with the cursor at
\* L + 2, L the length the host declared
FirstFrameDone ==
  /\ got = <<>> /\ pc = "idle" /\ ret = BodyRead2
  /\ curpos = FirstLen + HeaderLen

\* C20 (as claimed): with a whole frame in the stream, every read getting
\* at least one byte and no growth failure, a caller that keeps calling
\* read_cmd with the preserved state eventually sees the result 2 with
\* cursor = L + 2, for every L and every initial capacity.
C20_Progress == <>FirstFrameDone

(* ============== claims about send_answer_string_ulong ================= *)
\* a send_answer_string_ulong call has returned
SendDone == wpc = "idle" /\ (encfail # 0 \/ caller = "send")

\* C11: in a send_answer_string_ulong call in which an encoding step fails
\* no underlying write is issued, fd 1 receives no byte of a header or a
\* body, and the call returns -1.
C11_NoBytesOnFailedEncoding ==
  encfail # 0 => /\ wpc = "idle" /\ nw = 0 /\ sink = <<>> /\ failed = <<>>
                 /\ retval = ErrNeg

\* the integer-encoding step failed with version, tuple header and atom
\* already in the encode buffer
C11_Witness ==
  /\ encfail = EncSteps /\ xbuff # <<>> /\ wpc = "idle"
  /\ sink = <<>> /\ nw = 0 /\ retval = ErrNeg

\* C12 (as claimed): when an underlying write of a send_answer_string_ulong
\* call gave <= 0, the call issues no further write and returns -1, not its
\* success result 0.
C12_WriteFailurePropagated ==
  caller = "send" =>
    /\ ~late
    /\ (wpc = "idle" /\ failed # <<>>) => (retval = ErrNeg /\ retval # 0)

\* C13: ei_x_free has run exactly once when send_answer_string_ulong has
\* returned, whether it returns after a successful send, after a failed
\* encoding step or after a failed write, and not before.
C13_ReleasedOnce ==
  /\ SendDone => nfree = 1
  /\ (caller = "send" /\ wpc # "idle") => nfree = 0

\* the call returned -1 after a write that took nothing
C13_Witness ==
  /\ SendDone /\ caller = "send" /\ failed # <<>> /\ wret = 0
  /\ retval = ErrNeg /\ nfree = 1

====
